---- MODULE Spec2Model ----
(***************************************************************************)
(* Float-flow layout (src/components/main/layout/float.rs): one float-flow *)
(* node with an optional render box and an ordered list of child flows,    *)
(* driven through bubble_widths_float, assign_widths_float and             *)
(* assign_height_float.  Lengths are Au values (integers).                 *)
(***************************************************************************)
EXTENDS Integers, Sequences, FiniteSets, TLC

VARIABLES common, box, kids, containing_width, pc, passes, out_of_order

vars == <<common, box, kids, containing_width, pc, passes, out_of_order>>

\* ---------------------------------------------------------------- bounds
MaxKids == 2
MaxPasses == 6

\* ------------------------------------------------------ geometry helpers
\* geometry::max / geometry::min on Au
Max(a, b) == IF a > b THEN a ELSE b
Min(a, b) == IF a < b THEN a ELSE b

ZeroRect == [origin |-> [x |-> 0, y |-> 0], size |-> [width |-> 0, height |-> 0]]
ZeroEdges == [top |-> 0, right |-> 0, bottom |-> 0, left |-> 0]

\* ---------------------------------------------------------- style values
\* a style declaration is "auto", an explicit length or a percentage
Auto == [kind |-> "auto", v |-> 0]
Px(n) == [kind |-> "len", v |-> n]
Pct(p) == [kind |-> "pct", v |-> p]

\* MaybeAuto: Auto | Specified(Au)
MaybeAutoAuto == [auto |-> TRUE, value |-> 0]
Specified(a) == [auto |-> FALSE, value |-> a]

\* MaybeAuto::from_margin / from_width / from_height: a percentage is
\* resolved against the containing-block length cb, a length stands for
\* itself, auto stays Auto
FromStyle(s, cb) ==
    CASE s.kind = "auto" -> MaybeAutoAuto
      [] s.kind = "len"  -> Specified(s.v)
      [] s.kind = "pct"  -> Specified((cb * s.v) \div 100)

\* MaybeAuto::spec_or_default
SpecOrDefault(m, default) == IF m.auto THEN default ELSE m.value

\* BoxModel::compute_borders: border widths are lengths taken from style
ComputeBorders(style) == style.border

\* BoxModel::compute_padding: each edge resolved against the containing width
ComputePadding(style, cb) ==
    [top    |-> SpecOrDefault(FromStyle(style.padding.top, cb), 0),
     right  |-> SpecOrDefault(FromStyle(style.padding.right, cb), 0),
     bottom |-> SpecOrDefault(FromStyle(style.padding.bottom, cb), 0),
     left   |-> SpecOrDefault(FromStyle(style.padding.left, cb), 0)]

\* BoxModel::offset: start of the content area
ModelOffset(model) == model.margin.left + model.border.left + model.padding.left

\* ------------------------------------------------------- placement state
\* FloatContext: Invalid, or a valid state holding the registered floats
Invalid == [valid |-> FALSE, hint |-> 0, floats |-> <<>>]
FloatContextNew(n) == [valid |-> TRUE, hint |-> n, floats |-> <<>>]
\* FloatContext::add_float: returns the state with the footprint registered
add_float(ctx, info) == [ctx EXCEPT !.floats = Append(ctx.floats, info)]

\* --------------------------------------------------------- input domains
Widths == {80, 300}

MarginStyles ==
    { [top |-> Auto, right |-> Auto, bottom |-> Auto, left |-> Auto],
      [top |-> Px(5), right |-> Px(2), bottom |-> Px(1), left |-> Px(4)],
      [top |-> Auto, right |-> Pct(10), bottom |-> Px(1), left |-> Auto] }

PaddingStyles ==
    { [top |-> Px(0), right |-> Px(0), bottom |-> Px(0), left |-> Px(0)],
      [top |-> Px(2), right |-> Px(1), bottom |-> Px(2), left |-> Pct(10)] }

BorderStyles ==
    { ZeroEdges, [top |-> 3, right |-> 1, bottom |-> 3, left |-> 1] }

WidthStyles == {Auto, Px(150), Pct(50)}
HeightStyles == {Auto, Px(120)}

\* intrinsic widths reported by RenderBox::get_min_width / get_pref_width
BoxIntrinsics == { [min |-> 20, pref |-> 50] }

Styles ==
    [margin : MarginStyles, padding : PaddingStyles, border : BorderStyles,
     width : WidthStyles, height : HeightStyles]

NoStyle ==
    [margin |-> [top |-> Auto, right |-> Auto, bottom |-> Auto, left |-> Auto],
     padding |-> [top |-> Px(0), right |-> Px(0), bottom |-> Px(0), left |-> Px(0)],
     border |-> ZeroEdges, width |-> Auto, height |-> Auto]

\* child flows: intrinsic widths computed by the child's own bubbling, the
\* height its own assign_height produces, and its num_floats
KidKinds ==
    { [min_width |-> 80, pref_width |-> 200, height |-> 40, num_floats |-> 0],
      [min_width |-> 30, pref_width |-> 60, height |-> 60, num_floats |-> 1] }

NewKid(k) ==
    [min_width |-> k.min_width, pref_width |-> k.pref_width,
     num_floats |-> k.num_floats, content_height |-> k.height,
     position |-> ZeroRect, floats_in |-> Invalid]

KidSeqs == UNION { [1..n -> {NewKid(k) : k \in KidKinds}] : n \in 0..MaxKids }

PriorFloat == [width |-> 50, height |-> 30, ceiling |-> 0, max_width |-> 300,
               f_type |-> "FloatLeft"]

FloatsIn == { FloatContextNew(1), add_float(FloatContextNew(2), PriorFloat) }

\* the render box: Some(box) / None
SomeBox(style, intr) ==
    [present |-> TRUE, style |-> style,
     min_width |-> intr.min, pref_width |-> intr.pref,
     model |-> [margin |-> ZeroEdges, border |-> ZeroEdges, padding |-> ZeroEdges],
     position |-> ZeroRect]

NoBox ==
    [present |-> FALSE, style |-> NoStyle, min_width |-> 0, pref_width |-> 0,
     model |-> [margin |-> ZeroEdges, border |-> ZeroEdges, padding |-> ZeroEdges],
     position |-> ZeroRect]

\* ------------------------------------------------------------------ Init
\* FloatFlowData::new, with the box attached by the flow builder, the
\* width set by the parent and floats_in reset by the parent's bubbling
Init ==
    /\ \E w \in Widths, f \in FloatsIn :
          common = [min_width |-> 0, pref_width |-> 0, num_floats |-> 0,
                    position |-> [ZeroRect EXCEPT !.size.width = w],
                    floats_in |-> f, floats_out |-> Invalid]
    /\ box \in {NoBox} \cup {SomeBox(s, i) : s \in Styles, i \in BoxIntrinsics}
    /\ kids \in KidSeqs
    /\ containing_width = 0
    /\ pc = "new"
    /\ passes = 0
    /\ out_of_order = FALSE

\* the fixed order in which the tree-walk driver is meant to run the passes
InOrder(pass) ==
    CASE pass = "bubbled" -> pc \in {"new", "heights"}
      [] pass = "widths"  -> pc = "bubbled"
      [] pass = "heights" -> pc = "widths"

Driver(pass) ==
    /\ passes < MaxPasses
    /\ passes' = passes + 1
    /\ pc' = pass
    /\ out_of_order' = (out_of_order \/ ~InOrder(pass))

\* ------------------------------------------------------ bubble_widths_float
\* the running maxima over the children's intrinsic widths
\* variant: the preferred width folded with min instead of max
RECURSIVE BubbleFoldMinPref(_)
BubbleFoldMinPref(ks) ==
    IF ks = <<>> THEN [min_width |-> 0, pref_width |-> 0]
    ELSE LET r == BubbleFoldMinPref(SubSeq(ks, 1, Len(ks) - 1))
             k == ks[Len(ks)]
         IN [min_width |-> Max(r.min_width, k.min_width),
             pref_width |-> Min(r.pref_width, k.pref_width)]

RECURSIVE BubbleFold(_)
BubbleFold(ks) ==
    IF ks = <<>> THEN [min_width |-> 0, pref_width |-> 0]
    ELSE LET r == BubbleFold(SubSeq(ks, 1, Len(ks) - 1))
             k == ks[Len(ks)]
         IN [min_width |-> Max(r.min_width, k.min_width),
             pref_width |-> Max(r.pref_width, k.pref_width)]

BubbleWidthsFloat ==
    /\ Driver("bubbled")
    /\ LET fold == BubbleFold(kids)
           min_width == fold.min_width + (IF box.present THEN box.min_width ELSE 0)
           pref_width == fold.pref_width + (IF box.present THEN box.pref_width ELSE 0)
       IN common' = [common EXCEPT !.num_floats = 1,
                                   !.min_width = min_width,
                                   !.pref_width = pref_width]
    /\ kids' = [i \in 1..Len(kids) |->
                  [kids[i] EXCEPT !.floats_in = FloatContextNew(kids[i].num_floats)]]
    /\ box' = IF box.present
              THEN [box EXCEPT !.model.border = ComputeBorders(box.style)]
              ELSE box
    /\ UNCHANGED containing_width

\* ------------------------------------------------------ assign_widths_float
\* margins for floats are 0 if auto
\* variant: an auto margin takes half of the containing width
FloatMarginCentered(m, remaining_width) ==
    SpecOrDefault(FromStyle(m, remaining_width), remaining_width \div 2)

FloatMargin(m, remaining_width) ==
    SpecOrDefault(FromStyle(m, remaining_width), 0)

\* variant: min and max exchanged
ShrinkToFitSwapped(pref_width, min_width, remaining_width) ==
    Max(pref_width, Min(min_width, remaining_width))

ShrinkToFit(pref_width, min_width, remaining_width) ==
    Min(pref_width, Max(min_width, remaining_width))

\* variant: the content-area offset is not handed to the children
AssignKidWidthsNoOffset(ks, x_offset, remaining_width) ==
    [i \in 1..Len(ks) |->
        [ks[i] EXCEPT !.position.origin.x = 0,
                      !.position.size.width = remaining_width]]

\* every child gets the same x offset and width
AssignKidWidths(ks, x_offset, remaining_width) ==
    [i \in 1..Len(ks) |->
        [ks[i] EXCEPT !.position.origin.x = x_offset,
                      !.position.size.width = remaining_width]]

AssignWidthsFloat ==
    /\ Driver("widths")
    /\ LET remaining_width == common.position.size.width
           style == box.style
           padding == ComputePadding(style, remaining_width)
           margin == [top    |-> FloatMargin(style.margin.top, remaining_width),
                      right  |-> FloatMargin(style.margin.right, remaining_width),
                      bottom |-> FloatMargin(style.margin.bottom, remaining_width),
                      left   |-> FloatMargin(style.margin.left, remaining_width)]
           shrink_to_fit == ShrinkToFit(common.pref_width, common.min_width,
                                        remaining_width)
           width == SpecOrDefault(FromStyle(style.width, remaining_width),
                                  shrink_to_fit)
           model == [box.model EXCEPT !.padding = padding, !.margin = margin]
           pb == model.padding.left + model.padding.right +
                 model.border.left + model.border.right
       IN /\ containing_width' = remaining_width
          /\ IF box.present
             THEN /\ box' = [box EXCEPT !.model = model,
                                        !.position.origin.x = model.margin.left,
                                        !.position.size.width = width + pb]
                  /\ common' = [common EXCEPT !.position.size.width = width]
                  /\ kids' = AssignKidWidths(kids, ModelOffset(model), width)
             ELSE /\ box' = box
                  /\ common' = [common EXCEPT !.position.size.width = remaining_width]
                  /\ kids' = AssignKidWidths(kids, 0, remaining_width)

\* ------------------------------------------------------ assign_height_float
\* kid.assign_height(ctx): the child flow sizes itself
KidsAssignHeight(ks) ==
    [i \in 1..Len(ks) |->
        [ks[i] EXCEPT !.position.size.height = ks[i].content_height]]

\* variant: cur_y is not advanced past a child
RECURSIVE StackKidsNoAdvance(_, _)
StackKidsNoAdvance(ks, cur_y) ==
    IF ks = <<>> THEN <<>>
    ELSE <<[ks[1] EXCEPT !.position.origin.y = cur_y]>>
         \o StackKidsNoAdvance(Tail(ks), cur_y)

\* children are stacked: origin.y = cur_y, cur_y += height
RECURSIVE StackKids(_, _)
StackKids(ks, cur_y) ==
    IF ks = <<>> THEN <<>>
    ELSE <<[ks[1] EXCEPT !.position.origin.y = cur_y]>>
         \o StackKids(Tail(ks), cur_y + ks[1].position.size.height)

RECURSIVE StackEnd(_, _)
StackEnd(ks, cur_y) ==
    IF ks = <<>> THEN cur_y
    ELSE StackEnd(Tail(ks), cur_y + ks[1].position.size.height)

\* variant: the resolved width is given as the available width
PlacementInfoOwnWidth(width, height, max_width) ==
    [width |-> width, height |-> height, ceiling |-> 0,
     max_width |-> width, f_type |-> "FloatLeft"]

PlacementInfo(width, height, max_width) ==
    [width |-> width, height |-> height, ceiling |-> 0,
     max_width |-> max_width, f_type |-> "FloatLeft"]

AssignHeightFloat ==
    /\ Driver("heights")
    /\ LET sized == KidsAssignHeight(kids)
           model == box.model
           top_offset == IF box.present
                         THEN model.margin.top + model.border.top + model.padding.top
                         ELSE 0
           cur_y == StackEnd(sized, top_offset)
           height0 == cur_y - top_offset
           noncontent_height ==
               IF box.present
               THEN model.padding.top + model.padding.bottom +
                    model.border.top + model.border.bottom +
                    model.margin.top + model.margin.bottom
               ELSE 0
           height_prop == SpecOrDefault(FromStyle(box.style.height, 0), 0)
           height == IF box.present
                     THEN Max(height0, height_prop) + noncontent_height
                     ELSE height0
           info == PlacementInfo(common.position.size.width, height,
                                 containing_width)
       IN /\ kids' = StackKids(sized, top_offset)
          /\ box' = IF box.present
                    THEN [box EXCEPT !.position.origin.y = model.margin.top,
                                     !.position.size.height = height]
                    ELSE box
          /\ common' = [common EXCEPT
                          !.floats_out = add_float(common.floats_in, info)]
    /\ UNCHANGED containing_width

Next == BubbleWidthsFloat \/ AssignWidthsFloat \/ AssignHeightFloat

Spec == Init /\ [][Next]_vars

TypeOK ==
    /\ pc \in {"new", "bubbled", "widths", "heights"}
    /\ passes \in 0..MaxPasses
    /\ out_of_order \in BOOLEAN
    /\ Len(kids) <= MaxKids

\* ------------------------------------------------------------ properties
\* quantities the properties are stated in, written out from the box model
NodeWidth == common.position.size.width

RECURSIVE SumHeights(_)
SumHeights(n) ==
    IF n = 0 THEN 0 ELSE SumHeights(n - 1) + kids[n].position.size.height

TopEdges ==
    IF box.present
    THEN box.model.margin.top + box.model.border.top + box.model.padding.top
    ELSE 0

LeftEdges ==
    IF box.present
    THEN box.model.margin.left + box.model.border.left + box.model.padding.left
    ELSE 0

VerticalPaddingBorder ==
    box.model.padding.top + box.model.padding.bottom +
    box.model.border.top + box.model.border.bottom

VerticalMargins == box.model.margin.top + box.model.margin.bottom

DeclaredHeight ==
    IF box.style.height.kind = "len" THEN box.style.height.v ELSE 0

ContentHeight ==
    IF SumHeights(Len(kids)) >= DeclaredHeight
    THEN SumHeights(Len(kids)) ELSE DeclaredHeight

FootprintHeight ==
    IF box.present
    THEN ContentHeight + VerticalPaddingBorder + VerticalMargins
    ELSE SumHeights(Len(kids))

Clamp(w, lo, hi) == IF w < lo THEN lo ELSE IF w > hi THEN hi ELSE w

Sides == {"top", "right", "bottom", "left"}

\* C1: after assign_widths_float on a float with an own render box the
\* node's width is the declared style width when one is specified (a length
\* as given, a percentage resolved against the parent-assigned width W), and
\* otherwise min(pref_width, max(min_width, W)), which for
\* min_width <= pref_width is clamp(W, min_width, pref_width)
\* (W=300, min=100, pref=250 gives 250; W=80 gives 100).
C1_AssignedWidth ==
    (pc = "widths" /\ box.present) =>
        LET W == containing_width
            s == box.style.width
            mn == common.min_width
            pf == common.pref_width
        IN /\ s.kind = "len" => NodeWidth = s.v
           /\ s.kind = "pct" => NodeWidth = (W * s.v) \div 100
           /\ s.kind = "auto" =>
                 /\ LET floor == IF mn >= W THEN mn ELSE W
                    IN NodeWidth = IF pf <= floor THEN pf ELSE floor
                 /\ mn <= pf => NodeWidth = Clamp(W, mn, pf)
                 /\ (W = 300 /\ mn = 100 /\ pf = 250) => NodeWidth = 250
                 /\ (W = 80 /\ mn = 100 /\ pf = 250) => NodeWidth = 100

C1_Witness ==
    /\ pc = "widths" /\ ~out_of_order /\ box.present
    /\ box.style.width.kind = "auto"
    /\ containing_width = 80
    /\ common.min_width = 100 /\ common.pref_width = 250
    /\ NodeWidth = 100

\* C2: a second bubble -> assign-widths -> assign-height run directly after
\* a first complete run leaves every position and size (node width,
\* containing_width, box rectangle, children's rectangles) as the first run
\* left them.
C2_Idempotent ==
    [][(~out_of_order /\ passes >= 3 /\ ~out_of_order') =>
          /\ common'.position = common.position
          /\ containing_width' = containing_width
          /\ box'.position = box.position
          /\ \A i \in 1..Len(kids) : kids'[i].position = kids[i].position]_vars

\* C3: after assign_height_float on a float with an own render box, the
\* box's rectangle is its border box vertically: origin.y is the top margin
\* and size.height is the content height plus vertical padding and border,
\* with no margin included.
C3_BoxIsBorderBox ==
    (pc = "heights" /\ ~out_of_order /\ box.present) =>
        /\ box.position.origin.y = box.model.margin.top
        /\ box.position.size.height = ContentHeight + VerticalPaddingBorder

\* C4: after assign_height_float on a float with no own render box, the
\* node's own size is the parent-assigned width and the sum of the
\* children's heights.
C4_NodeSizeFromKids ==
    (pc = "heights" /\ ~out_of_order /\ ~box.present) =>
        /\ NodeWidth = containing_width
        /\ common.position.size.height = SumHeights(Len(kids))

\* C5: after assign_height_float child i sits at top_offset plus the heights
\* of the children before it, so children never overlap vertically, and the
\* content height entering the footprint is the sum of all children's
\* heights, independent of top_offset.
C5_Stacking ==
    (pc = "heights") =>
        /\ \A i \in 1..Len(kids) :
              kids[i].position.origin.y = TopEdges + SumHeights(i - 1)
        /\ \A i, j \in 1..Len(kids) :
              i < j => kids[i].position.origin.y + kids[i].position.size.height
                          <= kids[j].position.origin.y
        /\ LET fs == common.floats_out.floats
           IN fs[Len(fs)].height = FootprintHeight

C5_Witness ==
    /\ pc = "heights" /\ ~out_of_order /\ box.present
    /\ Len(kids) = 2
    /\ kids[1].position.size.height = 40 /\ kids[2].position.size.height = 60
    /\ TopEdges = 10
    /\ kids[1].position.origin.y = 10 /\ kids[2].position.origin.y = 50

\* C6: a call of assign_height_float submits exactly one placement request
\* to floats_in and stores the returned state in floats_out, floats_in
\* staying as it was; the request is {width = the node's width, height =
\* the final height with vertical padding, border and margin, ceiling = 0,
\* max_width = containing_width (the node's width before width
\* assignment), side = left}.
C6_Request ==
    [width |-> NodeWidth, height |-> FootprintHeight, ceiling |-> 0,
     max_width |-> containing_width, f_type |-> "FloatLeft"]

C6_Placement ==
    /\ [](pc = "heights" =>
            /\ common.floats_out.valid
            /\ Len(common.floats_out.floats) = Len(common.floats_in.floats) + 1
            /\ SubSeq(common.floats_out.floats, 1, Len(common.floats_in.floats))
                  = common.floats_in.floats
            /\ LET r == common.floats_out.floats[Len(common.floats_out.floats)]
               IN /\ r.width = C6_Request.width
                  /\ r.height = C6_Request.height
                  /\ r.ceiling = 0
                  /\ r.max_width = C6_Request.max_width
                  /\ r.f_type = "FloatLeft")
    /\ [][/\ common'.floats_in = common.floats_in
          /\ pc' # "heights" => common'.floats_out = common.floats_out
          /\ (pc' = "widths" /\ passes' # passes) =>
                containing_width' = common.position.size.width]_vars

C6_Witness ==
    /\ pc = "heights" /\ ~out_of_order
    /\ Len(common.floats_in.floats) = 1
    /\ Len(common.floats_out.floats) = 2
    /\ containing_width = 300 /\ NodeWidth = 150
    /\ VerticalMargins > 0

\* C7: in assign_widths_float every auto margin of the own box resolves to
\* 0 for any containing width and an explicit margin to its specified
\* value; an auto margin never takes a share of the leftover width.
C7_FloatMargins ==
    /\ \A side \in Sides :
          (box.style.margin[side].kind = "auto") => box.model.margin[side] = 0
    /\ (pc = "widths" /\ box.present) =>
          \A side \in Sides :
             LET m == box.style.margin[side]
             IN /\ m.kind = "len" => box.model.margin[side] = m.v
                /\ m.kind = "pct" =>
                      box.model.margin[side] = (containing_width * m.v) \div 100

C7_Witness ==
    /\ pc = "widths" /\ box.present
    /\ box.style.margin.left.kind = "auto"
    /\ box.style.margin.bottom.kind = "len"
    /\ box.position.size.width < containing_width
    /\ box.model.margin.left = 0
    /\ box.model.margin.bottom = 1

\* C8: a pass invoked out of order does not complete normally and produces
\* no positions, sizes or floats_out.
C8_OutOfOrderIsFatal ==
    [][(passes' # passes /\ out_of_order' /\ ~out_of_order) =>
          UNCHANGED <<common, box, kids, containing_width>>]_vars

\* C9: after assign_widths_float every child has the same origin.x, the own
\* box's left margin + border + padding (0 without an own box), and the same
\* width, the node's resolved width; without an own box that is the
\* parent-assigned width, which the node keeps.
C9_KidsShareOffsetAndWidth ==
    (pc = "widths") =>
        /\ \A i \in 1..Len(kids) :
              /\ kids[i].position.origin.x = LeftEdges
              /\ kids[i].position.size.width = NodeWidth
        /\ ~box.present =>
              /\ NodeWidth = containing_width
              /\ \A i \in 1..Len(kids) :
                    /\ kids[i].position.origin.x = 0
                    /\ kids[i].position.size.width = containing_width

C9_Witness ==
    /\ pc = "widths" /\ box.present /\ Len(kids) = 2
    /\ LeftEdges > 0
    /\ kids[1].position.origin.x = LeftEdges
    /\ kids[2].position.origin.x = LeftEdges
    /\ kids[1].position.size.width = 150 /\ kids[2].position.size.width = 150

\* C10: after bubble_widths_float min_width <= pref_width, min_width being
\* the largest child min_width plus the own box's, pref_width likewise,
\* given that every child and the box report min <= pref.
LargestOf(S) == IF S = {} THEN 0 ELSE CHOOSE m \in S : \A x \in S : x <= m

C10_MinLePref ==
    /\ common.min_width <= common.pref_width
    /\ pc = "bubbled" =>
          /\ common.min_width =
                LargestOf({kids[i].min_width : i \in 1..Len(kids)})
                + (IF box.present THEN box.min_width ELSE 0)
          /\ common.pref_width =
                LargestOf({kids[i].pref_width : i \in 1..Len(kids)})
                + (IF box.present THEN box.pref_width ELSE 0)

C10_Witness ==
    /\ pc = "bubbled" /\ box.present /\ Len(kids) = 2
    /\ kids[1].min_width # kids[2].min_width
    /\ box.min_width = 20
    /\ common.min_width = 100 /\ common.pref_width = 250

====
